---------------------------- MODULE Spec2Model ----------------------------
(***************************************************************************)
(* A model of crates/bevy_gltf/src/loader.rs: the asset loader entry point *)
(* GltfLoader::from_bytes, the routine it calls (load_rgltf), and the      *)
(* public routine load_gltf with its helper load_buffers.                  *)
(*                                                                         *)
(* Numbers.  TLC's integers are 32 bits wide, so a u32 is the pair of its  *)
(* 16-bit halves [hi, lo], and an f32 is the pair [m, e] standing for      *)
(* m * 2^e with |m| < 2^24 (a 24-bit significand), m odd or zero, so that  *)
(* equal floats are equal records.  Rounding into the 24-bit significand   *)
(* is round-to-nearest-even, as the C and Rust conversions do.             *)
(***************************************************************************)
EXTENDS Integers, Sequences, FiniteSets, TLC

\* The literal loop bound of the three reshape loops.
HardCodedCount == 3321

\* How many calls of from_bytes one behaviour of SpecCalls makes.
MaxCalls == 2

RECURSIVE Pow2(_)
Pow2(n) == IF n = 0 THEN 1 ELSE 2 * Pow2(n - 1)

Min(a, b) == IF a < b THEN a ELSE b

-----------------------------------------------------------------------------
(* f32 and u32 values *)

RECURSIVE F32(_, _)
\* The f32 m * 2^e in normal form (|m| < 2^24 on every use).
F32(m, e) ==
    IF m = 0 THEN [m |-> 0, e |-> 0]
    ELSE IF m % 2 = 0 THEN F32(m \div 2, e + 1)
    ELSE [m |-> m, e |-> e]

Zero == F32(0, 0)

U32(hi, lo) == [hi |-> hi, lo |-> lo]

U32Of(n) == U32(n \div 65536, n % 65536)

U32Max == U32(65535, 65535)

\* Two's complement negation of a u32.
U32Neg(u) ==
    IF u.hi = 0 /\ u.lo = 0 THEN u
    ELSE U32((65535 - u.hi + (IF u.lo = 0 THEN 1 ELSE 0)) % 65536,
             (65536 - u.lo) % 65536)

\* The number of low bits a u32 loses when it is stored in a 24-bit
\* significand: the least s with u < 2^(24+s).
RECURSIVE LostBits(_, _)
LostBits(u, s) == IF u.hi < Pow2(8 + s) THEN s ELSE LostBits(u, s + 1)

\* Storing an unsigned 32-bit integer in an f32 (round to nearest, ties to
\* even): what a value undergoes on its way into a Vec<f32>.
U32ToF32(u) ==
    LET s    == LostBits(u, 0)
        q    == u.hi * Pow2(16 - s) + (u.lo \div Pow2(s))
        r    == u.lo % Pow2(s)
        half == IF s = 0 THEN 0 ELSE Pow2(s - 1)
        up   == s > 0 /\ (r > half \/ (r = half /\ q % 2 = 1))
    IN  F32(IF up THEN q + 1 ELSE q, s)

\* A small signed integer as an f32 (exact).
IntToF32(n) == F32(n, 0)

\* f truncated toward zero is a value of 0 ..= u32::MAX.
InU32Range(f) ==
    IF f.e < 0 THEN f.m > -Pow2(-f.e)
    ELSE f.m >= 0 /\ (f.e <= 8 \/ (f.e < 32 /\ f.m < Pow2(32 - f.e)))

\* The low 32 bits of |f| truncated toward zero.
MagnitudeBits(f) ==
    LET a == IF f.m < 0 THEN -f.m ELSE f.m
    IN  IF f.e < 0 THEN U32Of(a \div Pow2(-f.e))
        ELSE IF f.e >= 32 THEN U32(0, 0)
        ELSE IF f.e >= 16 THEN U32((a % Pow2(32 - f.e)) * Pow2(f.e - 16), 0)
        ELSE U32((a \div Pow2(16 - f.e)) % 65536, (a % Pow2(16 - f.e)) * Pow2(f.e))

\* The two's complement wrap of an out-of-range value.
WrapU32(f) == IF f.m < 0 THEN U32Neg(MagnitudeBits(f)) ELSE MagnitudeBits(f)

\* The saturation of an out-of-range value.
SaturateU32(f) == IF f.m < 0 THEN U32(0, 0) ELSE U32Max

\* What an out-of-range `as u32` may yield: the cast saturates on current
\* compilers and was undefined behaviour on the compilers of the time of
\* the source, where the machine conversion wraps.
CastFlavors == {"saturate", "wrap"}

\* The cast narrowed to 16 bits first: `i as u16 as u32`.
AsU16AsU32(f, flavor) ==
    IF InU32Range(f)
    THEN (IF MagnitudeBits(f).hi > 0 THEN U32(0, 65535) ELSE MagnitudeBits(f))
    ELSE IF f.m < 0 THEN U32(0, 0) ELSE U32(0, 65535)

\* `i as u32` on an f32.
AsU32(f, flavor) ==
    IF InU32Range(f) THEN MagnitudeBits(f)
    ELSE IF flavor = "saturate" THEN SaturateU32(f)
    ELSE WrapU32(f)

-----------------------------------------------------------------------------
(* Documents: what the parser hands back for a file's contents *)

\* cgltf_num_components of an accessor type.
cgltf_num_components(type) ==
    CASE type = "SCALAR" -> 1
      [] type = "VEC2"   -> 2
      [] type = "VEC3"   -> 3

\* An accessor.  Its components are either written out (raw) or, for the
\* long vertex streams, described: component k of a described stream is the
\* float fill + k (all zero when fill = 0), and the elements listed in
\* sparse are overridden.
Accessor(name, type, count, component_type, fill, sparse, raw) ==
    [name |-> name, type |-> type, count |-> count,
     component_type |-> component_type,
     fill |-> fill, sparse |-> sparse, raw |-> raw]

NoAccessor == Accessor("", "SCALAR", 0, "r_32f", 0, {}, <<>>)

\* The accessor type the format prescribes for a semantic name.
TypeOfName(name) == IF name = "TEXCOORD_0" THEN "VEC2" ELSE "VEC3"

\* The attribute lists of the first primitive, in file order.
AttributeLayouts ==
    { <<"POSITION", "NORMAL", "TEXCOORD_0">>,
      <<"NORMAL", "COLOR_0", "TEXCOORD_0">>,
      <<"TEXCOORD_0", "POSITION", "NORMAL">>,
      <<"POSITION", "NORMAL">> }

\* Element counts: none, the ten of the sparse example, the literal loop
\* bound and one more.
Counts == {0, 10, HardCodedCount, HardCodedCount + 1}

\* The contents of the first attribute's stream: dense; ten-or-more zero
\* vectors with elements 3 and 7 overridden; dense with the element after
\* the literal loop bound overridden.
DataVariants(count) ==
    {[fill |-> 1, sparse |-> {}]}
    \cup (IF count > 7 THEN {[fill |-> 0, sparse |-> {3, 7}]} ELSE {})
    \cup (IF count > HardCodedCount
          THEN {[fill |-> 1, sparse |-> {HardCodedCount}]} ELSE {})

VertexAccessor(name, count, fill, sparse) ==
    Accessor(name, TypeOfName(name), count, "r_32f", fill, sparse, <<>>)

\* The index accessors: component type, element type and raw components.
IndexAccessors ==
    { Accessor("", "SCALAR", 4, "r_16u", 0, {},
               <<U32Of(0), U32Of(1), U32Of(2), U32Of(65535)>>),
      Accessor("", "SCALAR", 3, "r_32u", 0, {},
               <<U32Of(16777216), U32Of(70000), U32Of(2)>>),
      Accessor("", "SCALAR", 4, "r_32u", 0, {},
               <<U32Of(0), U32Of(16777217), U32Of(16777219), U32Max>>),
      Accessor("", "SCALAR", 2, "r_16", 0, {}, <<5, -1>>),
      Accessor("", "SCALAR", 4, "r_32f", 0, {},
               <<F32(5, -1), F32(-1, -1), F32(1, 32), F32(-3, 0)>>),
      Accessor("", "VEC2", 2, "r_16u", 0, {},
               <<U32Of(0), U32Of(1), U32Of(2), U32Of(3)>>) }

\* A parsed file: the first primitive's attributes and index accessor, and
\* whether its buffers can be loaded.
Document(attributes, indices, buffers_ok) ==
    [attributes |-> attributes, indices |-> indices, buffers_ok |-> buffers_ok]

AttributeLists ==
    UNION { { [i \in 1..Len(layout) |->
                 IF i = 1 THEN VertexAccessor(layout[i], c[i], v.fill, v.sparse)
                 ELSE VertexAccessor(layout[i], c[i], i, {})] :
              v \in DataVariants(c[1]) } :
            layout \in AttributeLayouts, c \in [1..3 -> Counts] }

\* The attribute list and the index accessor of a well-formed file whose
\* vertex count is the literal loop bound.
BaseAttributes ==
    <<VertexAccessor("POSITION", HardCodedCount, 1, {}),
      VertexAccessor("NORMAL", HardCodedCount, 2, {}),
      VertexAccessor("TEXCOORD_0", HardCodedCount, 3, {})>>

BaseIndices ==
    Accessor("", "SCALAR", 4, "r_16u", 0, {},
             <<U32Of(0), U32Of(1), U32Of(2), U32Of(65535)>>)

\* The files: every attribute list with the base index accessor, and the
\* base attribute list with every index accessor, its buffers loadable or
\* not.  Every file has a mesh with a primitive and an index accessor:
\* load_rgltf follows these pointers unguarded.
Documents ==
    { Document(a, BaseIndices, TRUE) : a \in AttributeLists }
    \cup { Document(BaseAttributes, ix, ok) :
             ix \in IndexAccessors, ok \in BOOLEAN }

NoFile == [attributes |-> <<>>, indices |-> NoAccessor, buffers_ok |-> FALSE,
           missing |-> TRUE]

\* What the file system may hold at the path load_rgltf opens.
Files == {NoFile} \cup Documents

\* Two files of different geometry, as the bytes of a call describe them.
MonkeyA == Document(BaseAttributes, BaseIndices, TRUE)

MonkeyB ==
    Document(<<VertexAccessor("POSITION", HardCodedCount, 0, {3, 7}),
               VertexAccessor("NORMAL", HardCodedCount, 2, {}),
               VertexAccessor("TEXCOORD_0", HardCodedCount, 3, {})>>,
             Accessor("", "SCALAR", 3, "r_32u", 0, {},
                      <<U32Of(16777216), U32Of(70000), U32Of(2)>>), TRUE)

ByteInputs == {MonkeyA, MonkeyB}

-----------------------------------------------------------------------------
(* The float unpacking the loader calls *)

\* The value that overrides component c of a sparse element.
SparseValue(c) == F32(7001 + c, 0)

\* Component k (from 0) of the accessor's dense stream, as stored.
StoredComponent(acc, k) ==
    IF acc.raw # <<>> THEN acc.raw[k + 1]
    ELSE IF acc.fill = 0 THEN Zero ELSE F32(acc.fill + k, 0)

\* One stored component as a float: floats as they are, integers widened.
component_read_float(component_type, v) ==
    CASE component_type = "r_32f" -> v
      [] component_type \in {"r_8u", "r_16u", "r_32u"} -> U32ToF32(v)
      [] component_type \in {"r_8", "r_16"} -> IntToF32(v)

\* Float k (from 0) of the accessor's unpacked stream.
UnpackedFloat(acc, k) ==
    LET n == cgltf_num_components(acc.type)
    IN  IF (k \div n) \in acc.sparse THEN SparseValue(k % n)
        ELSE component_read_float(acc.component_type, StoredComponent(acc, k))

\* cgltf_accessor_unpack_floats with a null destination: the float count.
unpack_floats_count(acc) == acc.count * cgltf_num_components(acc.type)

\* How many floats cgltf_accessor_unpack_floats writes for float_count.
unpack_floats_written(acc, float_count) ==
    LET n == cgltf_num_components(acc.type)
    IN  (Min(unpack_floats_count(acc), float_count) \div n) * n

\* cgltf_accessor_unpack_floats into out (which holds what it writes).
unpack_floats(acc, out, float_count) ==
    [k \in 1..Len(out) |->
        IF k <= unpack_floats_written(acc, float_count)
        THEN UnpackedFloat(acc, k - 1) ELSE out[k]]

-----------------------------------------------------------------------------
(* State *)

VARIABLES
    fs,                  \* what the file system holds at the path opened
    bytes,               \* the bytes argument of the call, as a document
    pc,                  \* where the call stands
    result,              \* what the caller of from_bytes observes
    log,                 \* the earlier calls: the bytes and result of each
    options,             \* load_rgltf: what reading *options has found
    out_data,            \* load_rgltf: the parsed file
    positions_accessor, normals_accessor, uvs_accessor, indices_accessor,
    positions_out, normals_out, uvs_out, indices_out,
    positions_count_adj, normals_count_adj, uvs_count_adj, indices_count_adj,
    positions_temp_out, normals_temp_out, uvs_temp_out,
    storage,             \* load_gltf: the files beside the asset, by uri
    gltf,                \* load_gltf: the document parsed from the bytes
    buffer_data,         \* load_buffers: the bytes pushed so far
    reads,               \* how often each buffer's source has been read
    resolved,            \* the reader's buffer lookups: index and bytes
    mesh                 \* load_gltf: the mesh under construction

rgltf_vars ==
    <<out_data,
      positions_accessor, normals_accessor, uvs_accessor, indices_accessor,
      positions_out, normals_out, uvs_out, indices_out,
      positions_count_adj, normals_count_adj, uvs_count_adj, indices_count_adj,
      positions_temp_out, normals_temp_out, uvs_temp_out>>

gltf_vars == <<storage, gltf, buffer_data, reads, resolved, mesh>>

env_vars == <<fs, bytes, log, gltf_vars>>

vars == <<env_vars, options, pc, result, rgltf_vars>>

NoData == [attributes |-> <<>>, indices |-> NoAccessor, buffers_ok |-> FALSE,
           null |-> TRUE]

NoResult == [kind |-> "none"]

\* A panic unwinds to the caller of from_bytes: no value is returned.
Panic(at) == [kind |-> "panic", at |-> at]

\* The process died of a memory fault.
Crash(at) == [kind |-> "crash", at |-> at]

\* The locals of load_rgltf before the call and after it is left.
RgltfCleared ==
    /\ out_data' = NoData
    /\ positions_accessor' = NoAccessor /\ normals_accessor' = NoAccessor
    /\ uvs_accessor' = NoAccessor /\ indices_accessor' = NoAccessor
    /\ positions_out' = <<>> /\ normals_out' = <<>>
    /\ uvs_out' = <<>> /\ indices_out' = <<>>
    /\ positions_count_adj' = 0 /\ normals_count_adj' = 0
    /\ uvs_count_adj' = 0 /\ indices_count_adj' = 0
    /\ positions_temp_out' = <<>> /\ normals_temp_out' = <<>>
    /\ uvs_temp_out' = <<>>

\* The call ends here with outcome r.
Leave(r) ==
    /\ pc' = "done"
    /\ result' = r
    /\ RgltfCleared
    /\ UNCHANGED env_vars

InitRgltf ==
    /\ out_data = NoData
    /\ positions_accessor = NoAccessor /\ normals_accessor = NoAccessor
    /\ uvs_accessor = NoAccessor /\ indices_accessor = NoAccessor
    /\ positions_out = <<>> /\ normals_out = <<>>
    /\ uvs_out = <<>> /\ indices_out = <<>>
    /\ positions_count_adj = 0 /\ normals_count_adj = 0
    /\ uvs_count_adj = 0 /\ indices_count_adj = 0
    /\ positions_temp_out = <<>> /\ normals_temp_out = <<>>
    /\ uvs_temp_out = <<>>

NoGltf == [valid |-> FALSE, buffers |-> <<>>, blob |-> <<>>,
           primitive |-> FALSE, attributes |-> {}, position_buffer |-> 0,
           indices |-> FALSE]

NoMesh == [attributes |-> <<>>, indices |-> <<>>, indexed |-> FALSE]

InitGltf ==
    /\ storage = {}
    /\ gltf = NoGltf
    /\ buffer_data = <<>>
    /\ reads = <<>>
    /\ resolved = <<>>
    /\ mesh = NoMesh

-----------------------------------------------------------------------------
(* load_rgltf, as from_bytes calls it *)

positions_count == positions_accessor.count
normals_count == normals_accessor.count
uvs_count == uvs_accessor.count
indices_count == indices_accessor.count

\* cgltf_parse_file on the literal path: the bytes argument is not read.
cgltf_parse_file(file) == file

\* `options` points at a temporary that is gone when the statement that
\* made it ends (MaybeUninit::zeroed().as_ptr()): reading through it finds
\* the zeroes still there, or something else.
OptionsReads == {"zeroed", "clobbered"}

\* What a call given clobbered options may do: fail, or die.
ClobberedOutcomes(failure) == {Panic(failure), Crash("options read after free")}

ParseFile ==
    /\ pc = "parse_file"
    /\ \E seen \in OptionsReads :
          /\ options' = seen
          /\ IF seen = "clobbered"
             THEN \E r \in ClobberedOutcomes("Failed to load file") : Leave(r)
             ELSE IF fs = NoFile
             THEN Leave(Panic("Failed to load file"))
             ELSE /\ out_data' = cgltf_parse_file(fs)
                  /\ pc' = "load_buffers"
                  /\ UNCHANGED <<env_vars, result,
                       positions_accessor, normals_accessor, uvs_accessor,
                       indices_accessor, positions_out, normals_out, uvs_out,
                       indices_out, positions_count_adj, normals_count_adj,
                       uvs_count_adj, indices_count_adj, positions_temp_out,
                       normals_temp_out, uvs_temp_out>>

LoadBuffers ==
    /\ pc = "load_buffers"
    /\ \E seen \in OptionsReads :
          /\ options' = seen
          /\ IF seen = "clobbered"
             THEN \E r \in ClobberedOutcomes("Failed to load buffers") : Leave(r)
             ELSE IF ~out_data.buffers_ok
             THEN Leave(Panic("Failed to load buffers"))
             ELSE /\ pc' = "accessors"
                  /\ UNCHANGED <<env_vars, result, rgltf_vars>>

\* attributes[0], attributes[1], attributes[2] and the index accessor: the
\* attributes are taken by position, whatever their names.
SelectAccessors ==
    /\ pc = "accessors"
    /\ UNCHANGED options
    /\ IF Len(out_data.attributes) < 3
       THEN Leave(Panic("index out of bounds: attributes"))
       ELSE /\ positions_accessor' = out_data.attributes[1]
            /\ normals_accessor' = out_data.attributes[2]
            /\ uvs_accessor' = out_data.attributes[3]
            /\ indices_accessor' = out_data.indices
            /\ pc' = "resize"
            /\ UNCHANGED <<env_vars, result, out_data,
                 positions_out, normals_out, uvs_out, indices_out,
                 positions_count_adj, normals_count_adj, uvs_count_adj,
                 indices_count_adj, positions_temp_out, normals_temp_out,
                 uvs_temp_out>>

\* Vec::resize(count, zero) on each of the four output vectors.
Resized(count, zero) == [i \in 1..count |-> zero]

\* The four vectors resized to the accessors' counts, and the four calls
\* with a null destination that give the float counts.
ResizeOutputs ==
    /\ pc = "resize"
    /\ UNCHANGED options
    /\ positions_out' = Resized(positions_count, <<Zero, Zero, Zero>>)
    /\ normals_out' = Resized(normals_count, <<Zero, Zero, Zero>>)
    /\ uvs_out' = Resized(uvs_count, <<Zero, Zero>>)
    /\ indices_out' = Resized(indices_count, Zero)
    /\ positions_count_adj' = unpack_floats_count(positions_accessor)
    /\ normals_count_adj' = unpack_floats_count(normals_accessor)
    /\ uvs_count_adj' = unpack_floats_count(uvs_accessor)
    /\ indices_count_adj' = unpack_floats_count(indices_accessor)
    /\ pc' = "positions"
    /\ UNCHANGED <<env_vars, result, out_data,
         positions_accessor, normals_accessor, uvs_accessor, indices_accessor,
         positions_temp_out, normals_temp_out, uvs_temp_out>>

\* A reshape loop `for i in 0..3321 { out[i] = [temp[i*w], ...] }` indexes
\* out or temp past its end at some i: the indexing panics.
ReshapePanics(out, temp, w) ==
    LET out_len == Len(out)
        temp_len == Len(temp)
    IN  \E i \in 0..(HardCodedCount - 1) :
            i >= out_len \/ i * w + (w - 1) >= temp_len

\* The loop run to its end.
Reshaped(out, temp, w) ==
    [i \in 1..Len(out) |->
        IF i <= HardCodedCount
        THEN [c \in 1..w |-> temp[(i - 1) * w + c]]
        ELSE out[i]]

ReshapePositions ==
    /\ pc = "positions"
    /\ UNCHANGED options
    /\ LET temp == unpack_floats(positions_accessor,
                                 Resized(positions_count_adj, Zero),
                                 positions_count_adj)
       IN  IF ReshapePanics(positions_out, temp, 3)
           THEN Leave(Panic("index out of bounds: positions"))
           ELSE /\ positions_temp_out' = temp
                /\ positions_out' = Reshaped(positions_out, temp, 3)
                /\ pc' = "normals"
                /\ UNCHANGED <<env_vars, result, out_data,
                     positions_accessor, normals_accessor, uvs_accessor,
                     indices_accessor, normals_out, uvs_out, indices_out,
                     positions_count_adj, normals_count_adj, uvs_count_adj,
                     indices_count_adj, normals_temp_out, uvs_temp_out>>

ReshapeNormals ==
    /\ pc = "normals"
    /\ UNCHANGED options
    /\ LET temp == unpack_floats(normals_accessor,
                                 Resized(normals_count_adj, Zero),
                                 normals_count_adj)
       IN  IF ReshapePanics(normals_out, temp, 3)
           THEN Leave(Panic("index out of bounds: normals"))
           ELSE /\ normals_temp_out' = temp
                /\ normals_out' = Reshaped(normals_out, temp, 3)
                /\ pc' = "uvs"
                /\ UNCHANGED <<env_vars, result, out_data,
                     positions_accessor, normals_accessor, uvs_accessor,
                     indices_accessor, positions_out, uvs_out, indices_out,
                     positions_count_adj, normals_count_adj, uvs_count_adj,
                     indices_count_adj, positions_temp_out, uvs_temp_out>>

ReshapeUvs ==
    /\ pc = "uvs"
    /\ UNCHANGED options
    /\ LET temp == unpack_floats(uvs_accessor,
                                 Resized(uvs_count_adj, Zero),
                                 uvs_count_adj)
       IN  IF ReshapePanics(uvs_out, temp, 2)
           THEN Leave(Panic("index out of bounds: uvs"))
           ELSE /\ uvs_temp_out' = temp
                /\ uvs_out' = Reshaped(uvs_out, temp, 2)
                /\ pc' = "indices"
                /\ UNCHANGED <<env_vars, result, out_data,
                     positions_accessor, normals_accessor, uvs_accessor,
                     indices_accessor, positions_out, normals_out, indices_out,
                     positions_count_adj, normals_count_adj, uvs_count_adj,
                     indices_count_adj, positions_temp_out, normals_temp_out>>

\* The index floats are unpacked straight into indices_out, which holds
\* indices_count floats while indices_count_adj are asked for: more than
\* it holds when the accessor is not a scalar one.  Writing past the end
\* of the vector is undefined: the process dies, or goes on with the
\* vector filled.
UnpackIndices ==
    /\ pc = "indices"
    /\ UNCHANGED options
    /\ IF unpack_floats_written(indices_accessor, indices_count_adj)
            > Len(indices_out)
       THEN \/ Leave(Crash("write past the end of indices_out"))
            \/ /\ indices_out' = [k \in 1..Len(indices_out) |->
                                     UnpackedFloat(indices_accessor, k - 1)]
               /\ pc' = "mesh"
               /\ UNCHANGED <<env_vars, result, out_data,
                    positions_accessor, normals_accessor, uvs_accessor,
                    indices_accessor, positions_out, normals_out, uvs_out,
                    positions_count_adj, normals_count_adj, uvs_count_adj,
                    indices_count_adj, positions_temp_out, normals_temp_out,
                    uvs_temp_out>>
       ELSE /\ indices_out' = unpack_floats(indices_accessor, indices_out,
                                            indices_count_adj)
            /\ pc' = "mesh"
            /\ UNCHANGED <<env_vars, result, out_data,
                 positions_accessor, normals_accessor, uvs_accessor,
                 indices_accessor, positions_out, normals_out, uvs_out,
                 positions_count_adj, normals_count_adj, uvs_count_adj,
                 indices_count_adj, positions_temp_out, normals_temp_out,
                 uvs_temp_out>>

\* indices_out.into_iter().map(|i| i as u32).collect()
IndicesAsU32(floats, flavor) == [k \in 1..Len(floats) |-> AsU32(floats[k], flavor)]

\* The mesh load_rgltf builds.
BuiltMesh(positions, normals, uvs, indices) ==
    [attributes |-> << [name |-> "position", values |-> positions],
                       [name |-> "normal", values |-> normals],
                       [name |-> "uv", values |-> uvs] >>,
     indices |-> indices]

\* from_bytes wraps whatever load_rgltf returns in Ok.
from_bytes(loaded) == [kind |-> "Ok", mesh |-> loaded]

BuildMesh ==
    /\ pc = "mesh"
    /\ UNCHANGED options
    /\ \E flavor \in CastFlavors :
          Leave(from_bytes(BuiltMesh(positions_out, normals_out, uvs_out,
                                     IndicesAsU32(indices_out, flavor))))

load_rgltf ==
    \/ ParseFile
    \/ LoadBuffers
    \/ SelectAccessors
    \/ ResizeOutputs
    \/ ReshapePositions
    \/ ReshapeNormals
    \/ ReshapeUvs
    \/ UnpackIndices
    \/ BuildMesh

Init ==
    /\ fs \in Files
    /\ bytes = MonkeyA
    /\ pc = "parse_file"
    /\ result = NoResult
    /\ log = <<>>
    /\ options = "unread"
    /\ InitRgltf
    /\ InitGltf

Next == load_rgltf

Spec == Init /\ [][Next]_vars

-----------------------------------------------------------------------------
(* Calls of from_bytes one after another, the file system changing between *)

\* What the path load_rgltf opens may hold over a run of calls.
CallFiles == ByteInputs \cup {NoFile}

\* Some other program rewrites the file between two calls.
FsChange ==
    /\ pc = "done"
    /\ fs' \in CallFiles \ {fs}
    /\ UNCHANGED <<bytes, log, gltf_vars, options, pc, result, rgltf_vars>>

\* The caller notes the call's outcome and calls from_bytes again.
NextCall ==
    /\ pc = "done"
    /\ Len(log) + 1 < MaxCalls
    /\ log' = Append(log, [bytes |-> bytes, result |-> result])
    /\ bytes' \in ByteInputs
    /\ pc' = "parse_file"
    /\ result' = NoResult
    /\ options' = "unread"
    /\ UNCHANGED <<fs, gltf_vars, rgltf_vars>>

InitCalls ==
    /\ fs \in CallFiles
    /\ bytes \in ByteInputs
    /\ pc = "parse_file"
    /\ result = NoResult
    /\ log = <<>>
    /\ options = "unread"
    /\ InitRgltf
    /\ InitGltf

NextCalls == load_rgltf \/ FsChange \/ NextCall

SpecCalls == InitCalls /\ [][NextCalls]_vars

-----------------------------------------------------------------------------
(* load_gltf and load_buffers *)

\* The files a buffer uri may name, and a buffer's bytes in 4-byte words.
Uris == {"a.bin", "b.bin"}

FileWords(uri) ==
    IF uri = "a.bin" THEN [k \in 1..12 |-> k] ELSE [k \in 1..12 |-> 100 + k]

\* The binary chunk of a .glb.
BlobWords == [k \in 1..12 |-> 200 + k]

UriSource(uri) == [kind |-> "Uri", uri |-> uri]
BinSource == [kind |-> "Bin", uri |-> ""]

BufferLists ==
    { <<UriSource("a.bin")>>,
      <<UriSource("a.bin"), UriSource("b.bin")>>,
      <<UriSource("b.bin"), UriSource("a.bin")>>,
      <<BinSource, UriSource("a.bin")>>,
      <<UriSource("a.bin"), UriSource("a.bin")>> }

\* What Gltf::from_slice makes of the bytes: whether they parse, the
\* buffers, whether there is a binary chunk, whether the first node has a
\* mesh with a primitive, the primitive's attribute names, the buffer the
\* POSITION accessor lies in (the other accessors lie in the last buffer),
\* and whether the primitive is indexed.
GltfDocuments ==
    { [valid |-> v, buffers |-> b, blob |-> bl, primitive |-> p,
       attributes |-> a, position_buffer |-> pb, indices |-> ix] :
        v \in BOOLEAN, b \in BufferLists, bl \in BOOLEAN, p \in BOOLEAN,
        a \in SUBSET {"POSITION", "NORMAL", "TEXCOORD_0"},
        pb \in 1..2, ix \in BOOLEAN }

\* The bytes of buffer i as its source gives them.
SourceWords(source) ==
    IF source.kind = "Bin" THEN BlobWords ELSE FileWords(source.uri)

\* Gltf::from_slice(&bytes).unwrap()
GltfParse ==
    /\ pc = "gltf_parse"
    /\ IF ~bytes.valid
       THEN /\ pc' = "done"
            /\ result' = Panic("from_slice")
            /\ UNCHANGED gltf
       ELSE /\ gltf' = bytes
            /\ pc' = "load_buffers_loop"
            /\ UNCHANGED result
    /\ UNCHANGED <<fs, bytes, log, options, rgltf_vars, storage, buffer_data, reads,
                   resolved, mesh>>

\* The bytes put in front: buffer_data.insert(0, bytes)
InsertBufferInFront(data, words) == <<words>> \o data

\* buffer_data.push(bytes)
PushBuffer(data, words) == Append(data, words)

\* One turn of `for buffer in gltf.buffers()`: the next buffer is read from
\* its file, or copied from the binary chunk, and pushed.
LoadBuffer ==
    /\ pc = "load_buffers_loop"
    /\ Len(buffer_data) < Len(gltf.buffers)
    /\ LET i == Len(buffer_data) + 1
           source == gltf.buffers[i]
       IN  IF source.kind = "Uri" /\ source.uri \notin storage
           THEN /\ pc' = "done"
                /\ result' = Panic("fs::read")
                /\ buffer_data' = <<>>
                /\ UNCHANGED reads
           ELSE IF source.kind = "Bin" /\ ~gltf.blob
           THEN /\ pc' = "done"
                /\ result' = Panic("blob")
                /\ buffer_data' = <<>>
                /\ UNCHANGED reads
           ELSE /\ buffer_data' = PushBuffer(buffer_data, SourceWords(source))
                /\ reads' = [reads EXCEPT ![i] = @ + 1]
                /\ UNCHANGED <<pc, result>>
    /\ UNCHANGED <<fs, bytes, log, options, rgltf_vars, storage, gltf, resolved, mesh>>

\* load_buffers returns; the first primitive of the first node's mesh is
\* looked up.
FindPrimitive ==
    /\ pc = "load_buffers_loop"
    /\ Len(buffer_data) = Len(gltf.buffers)
    /\ IF ~gltf.primitive
       THEN /\ pc' = "done"
            /\ result' = Panic("No mesh found!")
            /\ buffer_data' = <<>>
       ELSE /\ pc' = "read_positions"
            /\ UNCHANGED <<result, buffer_data>>
    /\ UNCHANGED <<fs, bytes, log, options, rgltf_vars, storage, gltf, reads,
                   resolved, mesh>>

\* The reader's closure: |buffer| Some(&buffer_data[buffer.index()])
Resolve(index) == [index |-> index, words |-> buffer_data[index]]

\* The buffer an accessor lies in.
AccessorBuffer(name) ==
    IF name = "POSITION" THEN Min(gltf.position_buffer, Len(gltf.buffers))
    ELSE Len(gltf.buffers)

\* The elements an accessor reads from its buffer's words: count records
\* of w words from word first on, each word an f32.
ReadRecords(words, first, count, w) ==
    [i \in 1..count |-> [c \in 1..w |-> F32(words[first + (i - 1) * w + (c - 1)], 0)]]

\* One optional attribute: read and pushed if the primitive has it.
ReadAttribute(name, label, first, w, next) ==
    /\ IF name \in gltf.attributes
       THEN LET r == Resolve(AccessorBuffer(name))
            IN  /\ resolved' = Append(resolved, r)
                /\ mesh' = [mesh EXCEPT !.attributes =
                              Append(@, [name |-> label,
                                         values |-> ReadRecords(r.words, first, 2, w)])]
       ELSE UNCHANGED <<resolved, mesh>>
    /\ pc' = next
    /\ UNCHANGED <<fs, bytes, log, options, rgltf_vars, storage, gltf, buffer_data,
                   reads, result>>

ReadPositions ==
    /\ pc = "read_positions"
    /\ ReadAttribute("POSITION", "position", 1, 3, "read_normals")

ReadNormals ==
    /\ pc = "read_normals"
    /\ ReadAttribute("NORMAL", "normal", 7, 3, "read_tex_coords")

ReadTexCoords ==
    /\ pc = "read_tex_coords"
    /\ ReadAttribute("TEXCOORD_0", "uv", 1, 2, "read_indices")

\* read_indices().into_u32(), and the mesh is returned.
ReadIndices ==
    /\ pc = "read_indices"
    /\ LET r == Resolve(AccessorBuffer("indices"))
           indices == [k \in 1..3 |-> U32Of(r.words[9 + k])]
           loaded == IF gltf.indices
                     THEN [mesh EXCEPT !.indices = indices, !.indexed = TRUE]
                     ELSE mesh
       IN  /\ resolved' = IF gltf.indices THEN Append(resolved, r) ELSE resolved
           /\ result' = [kind |-> "mesh", mesh |-> loaded]
    /\ pc' = "done"
    /\ mesh' = NoMesh
    /\ buffer_data' = <<>>
    /\ UNCHANGED <<fs, bytes, log, options, rgltf_vars, storage, gltf, reads>>

load_gltf ==
    \/ GltfParse
    \/ LoadBuffer
    \/ FindPrimitive
    \/ ReadPositions
    \/ ReadNormals
    \/ ReadTexCoords
    \/ ReadIndices

InitLoadGltf ==
    /\ fs = NoFile
    /\ bytes \in GltfDocuments
    /\ pc = "gltf_parse"
    /\ result = NoResult
    /\ log = <<>>
    /\ options = "unread"
    /\ InitRgltf
    /\ storage \in SUBSET Uris
    /\ gltf = NoGltf
    /\ buffer_data = <<>>
    /\ reads = [i \in 1..Len(bytes.buffers) |-> 0]
    /\ resolved = <<>>
    /\ mesh = NoMesh

SpecLoadGltf == InitLoadGltf /\ [][load_gltf]_vars

-----------------------------------------------------------------------------
(* What the properties below speak of *)

Done == pc = "done"

ReturnedMesh == Done /\ result.kind = "Ok"

\* The file opened could be parsed and its buffers loaded.
Readable(file) == file # NoFile /\ file.buffers_ok

AttributeNames(file) ==
    {file.attributes[i].name : i \in 1..Len(file.attributes)}

CountsOf(file) ==
    {file.attributes[i].count : i \in 1..Len(file.attributes)}

UnsignedTypes == {"r_8u", "r_16u", "r_32u"}

\* A file the format allows and the design accepts: a POSITION attribute,
\* one element count for all attributes, a scalar unsigned index accessor.
WellFormed(file) ==
    /\ Readable(file)
    /\ "POSITION" \in AttributeNames(file)
    /\ Cardinality(CountsOf(file)) = 1
    /\ file.indices.type = "SCALAR"
    /\ file.indices.component_type \in UnsignedTypes

\* The file lists POSITION, NORMAL and TEXCOORD_0, in this order.
PositionNormalUv(file) ==
    /\ Len(file.attributes) = 3
    /\ file.attributes[1].name = "POSITION"
    /\ file.attributes[2].name = "NORMAL"
    /\ file.attributes[3].name = "TEXCOORD_0"

\* One of the three reshape loops runs past the end of its array.
LoopBoundExceeds(file) ==
    \E k \in 1..3 : file.attributes[k].count < HardCodedCount

\* Element i (from 1) of the accessor, decoded.
DecodedRecord(acc, i) ==
    LET n == cgltf_num_components(acc.type)
    IN  [c \in 1..n |-> UnpackedFloat(acc, (i - 1) * n + (c - 1))]

\* The floats of the file's index accessor.
IndexFloats(file) ==
    [k \in 1..unpack_floats_count(file.indices) |->
        UnpackedFloat(file.indices, k - 1)]

\* The array the returned mesh holds in place k.
MeshValues(k) == result.mesh.attributes[k].values

-----------------------------------------------------------------------------
(* Properties *)

\* C1: a decode of an accessor of N elements of arity A yields a stream of
\* exactly N * A floats and an array of exactly N records, and a count of
\* zero (as any other count) is decoded, not refused.
C1_StreamAndRecordCounts ==
    /\ pc \in {"normals", "uvs", "indices", "mesh"} =>
          /\ Len(positions_temp_out)
                = positions_count * cgltf_num_components(positions_accessor.type)
          /\ Len(positions_out) = positions_count
    /\ Done /\ WellFormed(fs) /\ PositionNormalUv(fs) /\ options = "zeroed" =>
          /\ result.kind = "Ok"
          /\ \A k \in 1..Len(fs.attributes) :
                Len(MeshValues(k)) = fs.attributes[k].count

\* C2: a primitive without a POSITION accessor ends in an error; no mesh
\* is returned for it.
C2_MissingPositionIsAnError ==
    Done /\ Readable(fs) /\ "POSITION" \notin AttributeNames(fs)
         /\ Cardinality(CountsOf(fs)) = 1
        => result.kind # "Ok"

\* C3: a primitive whose attribute accessors differ in element count ends
\* in an error; no mesh is returned for it.
C3_CountMismatchIsAnError ==
    Done /\ Readable(fs) /\ PositionNormalUv(fs)
         /\ Cardinality(CountsOf(fs)) > 1
        => result.kind # "Ok"

\* C4: a reshape loop whose bound exceeds the decoded array, and an
\* accessor reaching past its storage, end in a returned error, never in
\* a panic or a write out of bounds.
C4_OutOfRangeIsAReturnedError ==
    Done /\ Readable(fs) /\ PositionNormalUv(fs) /\ LoopBoundExceeds(fs)
         /\ options = "zeroed"
        => result.kind \notin {"panic", "crash"}

\* C5: a mesh the caller receives holds no array that was only partly
\* filled: every record is the decoded element, none is left as resize
\* made it.
C5_NoPartlyFilledMesh ==
    ReturnedMesh /\ PositionNormalUv(fs) =>
        \A k \in 1..3 :
            \A i \in 1..Len(MeshValues(k)) :
                MeshValues(k)[i] = DecodedRecord(fs.attributes[k], i)

\* C6 as claimed: the index array of a scalar accessor of any unsigned
\* integer type equals the raw values element for element.
C6_IndicesExactForEveryUnsignedType ==
    ReturnedMesh /\ fs.indices.type = "SCALAR"
                 /\ fs.indices.component_type \in UnsignedTypes
        => result.mesh.indices = fs.indices.raw

\* 2^24 as a u32: up to it every integer is an f32.
ExactLimit == U32(256, 0)

U32LessEq(a, b) == a.hi < b.hi \/ (a.hi = b.hi /\ a.lo <= b.lo)

\* C6 as amended: the index array of a scalar accessor of an unsigned
\* integer type whose raw values are all at most 2^24 (every UInt8 and
\* UInt16 accessor) equals the raw values element for element.
C6_IndicesExactUpTo2Pow24 ==
    ReturnedMesh /\ fs.indices.type = "SCALAR"
                 /\ fs.indices.component_type \in UnsignedTypes
                 /\ (\A k \in 1..Len(fs.indices.raw) :
                        U32LessEq(fs.indices.raw[k], ExactLimit))
        => result.mesh.indices = fs.indices.raw

\* A mesh was returned for a UInt32 index accessor holding 2^24 itself,
\* its indices equal to the raw values.
C6_Witness ==
    /\ ReturnedMesh
    /\ fs.indices.component_type = "r_32u"
    /\ \E k \in 1..Len(fs.indices.raw) : fs.indices.raw[k] = ExactLimit
    /\ result.mesh.indices = fs.indices.raw

\* C7: the conversion of the float stream to indices truncates toward
\* zero, and a stream with a negative value or one above u32::MAX ends in
\* an error: no mesh is returned with such a value cast into an index.
C7_IndexOverflowIsAnError ==
    /\ Done /\ Readable(fs)
            /\ (\E k \in DOMAIN IndexFloats(fs) : ~InU32Range(IndexFloats(fs)[k]))
          => result.kind # "Ok"
    /\ ReturnedMesh /\ fs.indices.type = "SCALAR" =>
          \A k \in DOMAIN IndexFloats(fs) :
              InU32Range(IndexFloats(fs)[k]) =>
                  result.mesh.indices[k] = MagnitudeBits(IndexFloats(fs)[k])

\* C9: with a sparse override, every listed element of the decoded array
\* holds its replacement and every other element its dense value.
C9_SparseOverride ==
    ReturnedMesh /\ WellFormed(fs) /\ PositionNormalUv(fs)
                 /\ fs.attributes[1].sparse # {} =>
        \A i \in 1..Len(MeshValues(1)) :
            MeshValues(1)[i] =
                IF (i - 1) \in fs.attributes[1].sparse
                THEN [c \in 1..3 |-> SparseValue(c - 1)]
                ELSE DecodedRecord([fs.attributes[1] EXCEPT !.sparse = {}], i)

\* C10: the outcome of from_bytes is a function of its bytes: two calls
\* with the same bytes end alike whatever the file system holds, and two
\* calls with bytes of different geometry end differently.
C10_OutcomeIsAFunctionOfTheBytes ==
    ReturnedMesh =>
        \A n \in 1..Len(log) :
            log[n].result.kind = "Ok" =>
                /\ log[n].bytes = bytes => log[n].result = result
                /\ log[n].bytes # bytes => log[n].result # result

=============================================================================
